---- MODULE Spec2Model ----
(***************************************************************************)
(* Model of the streamlit-browser repository:                              *)
(*   src/prepare_data_for_app.py  main() (legal-effects pipeline) and      *)
(*                                merge_tags() (path builder of the merge) *)
(*   src/app.py, src/version_1/app.py  load_data() and the record page     *)
(*   src/check_data.py            validate_statute_structure() and main()  *)
(*                                                                         *)
(* Text is modelled as a sequence of symbols.  One symbol is one character,*)
(* except "F", which stands for the three-backtick fence marker, "j",      *)
(* which stands for the language tag json, and the division type/number,   *)
(* which are kept as one symbol each.  The JSON the pipeline decodes is    *)
(* modelled by a small grammar with the same shape:                        *)
(*    text   ::= ws* array ws*                                             *)
(*    array  ::= "[" ws* ( elem ( ws* "," ws* elem )* )? ws* "]"           *)
(*    elem   ::= "n"  |  "{" content "}"                                   *)
(* "n" is a JSON number.  An object whose content holds a ":" is           *)
(* {"effect": <before the colon>, "explanation": <after it>}; an object    *)
(* without a colon has no "effect" key.                                    *)
(***************************************************************************)
EXTENDS Integers, Sequences, FiniteSets, TLC

VARIABLES
    mode,           \* which function of prepare_data_for_app.py runs
    pc,             \* position of that function
    mcu_list,       \* the code units (merge_tags: the items) iterated so far
    tag_output_dict,\* main: per iterated unit, its raw effect string
    n_error,        \* main: the error counter
    new_mcu_list,   \* main: the records appended so far
    processed_data, \* merge_tags: the records appended so far
    loader,         \* which app runs: "app" (app.py) or "v1" (version_1/app.py)
    apc,            \* position of load_data
    data,           \* the rows of the artifact read so far, in file order
    tag_to_id,      \* app.py: tag -> list of unique_id
    effect_to_id,   \* version_1: effect -> list of <<unique_id, explanation>>
    id_to_idx,      \* unique_id -> 0-based row index
    query_id,       \* the id parameter of the last page request
    page,           \* what the last page request ended in
    vpc,            \* check_data.main: position
    file,           \* check_data.main: what opening and parsing the file gives
    statutes,       \* check_data.main: the entries checked so far
    total_errors,   \* check_data.main: the issue counter
    result          \* check_data.main: how it ended

pipeVars == <<mode, pc, mcu_list, tag_output_dict, n_error, new_mcu_list,
              processed_data>>
appVars == <<loader, apc, data, tag_to_id, effect_to_id, id_to_idx, query_id,
             page>>
checkVars == <<vpc, file, statutes, total_errors, result>>

vars == <<pipeVars, appVars, checkVars>>

MaxUnits == 2
MaxRows == 2
MaxStatutes == 2

EmptyMap == [x \in {} |-> <<>>]

\* the state of a program that is not running
PipeIdle ==
    /\ mode = "off" /\ pc = "off" /\ mcu_list = <<>> /\ tag_output_dict = <<>>
    /\ n_error = 0 /\ new_mcu_list = <<>> /\ processed_data = <<>>

AppIdle ==
    /\ loader = "off" /\ apc = "off" /\ data = <<>> /\ tag_to_id = EmptyMap
    /\ effect_to_id = EmptyMap /\ id_to_idx = EmptyMap /\ query_id = "off"
    /\ page = "off"

CheckIdle ==
    /\ vpc = "off" /\ file = "off" /\ statutes = <<>> /\ total_errors = 0
    /\ result = "off"

\* ------------------------------------------------------------------ text

Max(S) == CHOOSE x \in S : \A y \in S : y <= x

\* str.replace(pat, ""): every non-overlapping occurrence, left to right
RECURSIVE Remove(_, _)
Remove(s, pat) ==
    IF Len(s) < Len(pat) THEN s
    ELSE IF SubSeq(s, 1, Len(pat)) = pat
         THEN Remove(SubSeq(s, Len(pat) + 1, Len(s)), pat)
         ELSE <<s[1]>> \o Remove(Tail(s), pat)

RECURSIVE LStrip(_)
LStrip(s) == IF s # <<>> /\ s[1] = " " THEN LStrip(Tail(s)) ELSE s

RECURSIVE RStrip(_)
RStrip(s) ==
    IF s # <<>> /\ s[Len(s)] = " " THEN RStrip(SubSeq(s, 1, Len(s) - 1)) ELSE s

\* str.strip()
Strip(s) == RStrip(LStrip(s))

\* str.rfind(c): the 0-based index of the last c, -1 when there is none
RFind(s, c) ==
    LET P == {i \in 1..Len(s) : s[i] = c}
    IN  IF P = {} THEN -1 ELSE Max(P) - 1

\* s[:k] for k >= 0
SliceTo(s, k) == SubSeq(s, 1, IF k < Len(s) THEN k ELSE Len(s))

\* s[:-3]
DropLast3(s) == SubSeq(s, 1, IF Len(s) > 3 THEN Len(s) - 3 ELSE 0)

EndsWith(s, suf) ==
    /\ Len(s) >= Len(suf)
    /\ SubSeq(s, Len(s) - Len(suf) + 1, Len(s)) = suf

\* ------------------------------------------------------------ json.loads

JsonFail == [ok |-> FALSE, value |-> <<>>]

JsonNumber == [kind |-> "num", has_effect |-> FALSE, effect |-> <<>>,
               explanation |-> <<>>]

\* the first position >= i that holds no whitespace (Len(s) + 1 at the end)
RECURSIVE SkipWs(_, _)
SkipWs(s, i) == IF i <= Len(s) /\ s[i] = " " THEN SkipWs(s, i + 1) ELSE i

\* the first position >= i that holds c, 0 when there is none
FindFrom(s, i, c) ==
    LET P == {k \in i..Len(s) : s[k] = c}
    IN  IF P = {} THEN 0 ELSE CHOOSE k \in P : \A m \in P : k <= m

\* the object whose text between the braces is content
JsonObject(content) ==
    LET c == FindFrom(content, 1, ":")
    IN  IF c = 0
        THEN [kind |-> "obj", has_effect |-> FALSE, effect |-> <<>>,
              explanation |-> content]
        ELSE [kind |-> "obj", has_effect |-> TRUE,
              effect |-> SubSeq(content, 1, c - 1),
              explanation |-> SubSeq(content, c + 1, Len(content))]

\* one array element at position i: [ok, elem, next]
JsonElem(s, i) ==
    IF i > Len(s) THEN [ok |-> FALSE, elem |-> JsonNumber, next |-> i]
    ELSE IF s[i] = "n" THEN [ok |-> TRUE, elem |-> JsonNumber, next |-> i + 1]
    ELSE IF s[i] = "{"
         THEN LET close == FindFrom(s, i + 1, "}")
                  content == SubSeq(s, i + 1, close - 1)
              IN  IF close = 0 \/ \E k \in 1..Len(content) : content[k] = "{"
                  THEN [ok |-> FALSE, elem |-> JsonNumber, next |-> i]
                  ELSE [ok |-> TRUE, elem |-> JsonObject(content),
                        next |-> close + 1]
    ELSE [ok |-> FALSE, elem |-> JsonNumber, next |-> i]

\* the elements from position i on, up to the closing bracket: [ok, value, next]
RECURSIVE JsonItems(_, _, _)
JsonItems(s, i, acc) ==
    LET e == JsonElem(s, i)
        k == SkipWs(s, e.next)
    IN  IF ~e.ok \/ k > Len(s) THEN [ok |-> FALSE, value |-> <<>>, next |-> i]
        ELSE IF s[k] = "," THEN JsonItems(s, SkipWs(s, k + 1), Append(acc, e.elem))
        ELSE IF s[k] = "]"
             THEN [ok |-> TRUE, value |-> Append(acc, e.elem), next |-> k + 1]
        ELSE [ok |-> FALSE, value |-> <<>>, next |-> i]

\* json.loads(s): [ok |-> FALSE] stands for json.JSONDecodeError
json_loads(s) ==
    LET i0 == SkipWs(s, 1)
    IN  IF i0 > Len(s) \/ s[i0] # "[" THEN JsonFail
        ELSE LET i1 == SkipWs(s, i0 + 1)
                 r  == IF i1 <= Len(s) /\ s[i1] = "]"
                       THEN [ok |-> TRUE, value |-> <<>>, next |-> i1 + 1]
                       ELSE JsonItems(s, i1, <<>>)
             IN  IF r.ok /\ SkipWs(s, r.next) = Len(s) + 1
                 THEN [ok |-> TRUE, value |-> r.value]
                 ELSE JsonFail

\* ------------------------------------------- prepare_data_for_app.py: main

\* constants.LIST_OF_EFFECTS, the controlled vocabulary
LIST_OF_EFFECTS == {<<"a">>, <<"b">>}

FENCE_JSON == <<"F", "j">>
FENCE == <<"F">>
SEP == <<" ", ">", " ">>
DASH == <<" ", "-", " ">>

\* lines 111-116: remove the fences, strip, cut after the last "]"
Repair(str_dict) ==
    LET s1 == Remove(Remove(str_dict, FENCE_JSON), FENCE)
        s2 == Strip(s1)
        last_bracket_index == RFind(s2, "]")
    IN  SliceTo(s2, last_bracket_index + 1)

\* lines 123-126: the division's name without one trailing period
StripPeriod(div_name) ==
    IF EndsWith(div_name, <<".">>)
    THEN SubSeq(div_name, 1, Len(div_name) - 1)
    ELSE div_name

\* line 128: one division's part of path_string
MainSegment(division) ==
    <<division.type, " ", division.number>> \o DASH
        \o StripPeriod(division.name) \o SEP

\* lines 121-128
RECURSIVE MainPathString(_)
MainPathString(path) ==
    IF path = <<>> THEN <<>>
    ELSE MainSegment(Head(path)) \o MainPathString(Tail(path))

\* lines 123-128: division['name'] is None (AttributeError on endswith) or
\* division has no 'number' key (KeyError)
MainPathRaises(path) ==
    \E k \in 1..Len(path) : path[k].name_null \/ ~path[k].has_number

\* line 132: tag['effect'] raises on an entry that is no object (TypeError) or
\* has no 'effect' key (KeyError)
FilterRaises(tag_list) ==
    \E k \in 1..Len(tag_list) :
        tag_list[k].kind # "obj" \/ ~tag_list[k].has_effect

InVocabulary(tag) == tag.effect \in LIST_OF_EFFECTS

\* line 132
FilterEffects(tag_list) == SelectSeq(tag_list, InVocabulary)

\* lines 134-142
NewMcu(mcu, path_string, tag_list) ==
    [unique_id |-> mcu.unique_id,
     full_name |-> path_string \o SEP \o mcu.full_name,
     path |-> path_string,
     jurisdiction |-> mcu.jurisdiction,
     year |-> mcu.year,
     text |-> mcu.full_text,
     legal_effects |-> tag_list]

\* a variant of AppendRecord that puts the record first
PrependRecord(list, new_mcu) == <<new_mcu>> \o list

\* line 143: new_mcu_list.append(new_mcu)
AppendRecord(list, new_mcu) == Append(list, new_mcu)

\* a variant of TryBody that keeps a unit whose string does not decode, with
\* no effects
TryBodySwallow(mcu, str_dict) ==
    LET decoded == json_loads(Repair(str_dict))
        tag_list == IF decoded.ok THEN decoded.value ELSE <<>>
    IN  IF MainPathRaises(mcu.path) \/ FilterRaises(tag_list)
        THEN [ok |-> FALSE, new_mcu |-> NewMcu(mcu, <<>>, <<>>)]
        ELSE [ok |-> TRUE,
              new_mcu |-> NewMcu(mcu, MainPathString(mcu.path),
                                 FilterEffects(tag_list))]

\* lines 110-143, the body of the try: [ok |-> FALSE] when it raises
TryBody(mcu, str_dict) ==
    LET decoded == json_loads(Repair(str_dict))
    IN  IF ~decoded.ok \/ MainPathRaises(mcu.path) \/ FilterRaises(decoded.value)
        THEN [ok |-> FALSE, new_mcu |-> NewMcu(mcu, <<>>, <<>>)]
        ELSE [ok |-> TRUE,
              new_mcu |-> NewMcu(mcu, MainPathString(mcu.path),
                                 FilterEffects(decoded.value))]

\* ------------------------------------- prepare_data_for_app.py: merge_tags

\* lines 52-55: dict.get with default "": an absent number renders as "",
\* a null name as the text None
MergeSegment(division) ==
    <<division.type, " ">>
        \o (IF division.has_number THEN <<division.number>> ELSE <<>>)
        \o DASH
        \o (IF division.name_null THEN <<"None">> ELSE division.name)
        \o SEP

RECURSIVE MergeConcat(_)
MergeConcat(path) ==
    IF path = <<>> THEN <<>>
    ELSE MergeSegment(Head(path)) \o MergeConcat(Tail(path))

\* lines 50-56
MergePath(path) == DropLast3(MergeConcat(path))

\* lines 57-67
MergeRecord(item) ==
    [jurisdiction |-> item.jurisdiction,
     year |-> item.year,
     text |-> item.full_text,
     heading |-> item.full_name,
     path |-> MergePath(item.path)]

\* ------------------------------------------------------------------ inputs

Division(type, number, name) ==
    [type |-> type, number |-> number, has_number |-> TRUE,
     name |-> name, name_null |-> FALSE]

Title45 == Division("Title", "45", <<"L", ".">>)
DivPlain == Division("Chapter", "1", <<"G">>)
DivPeriod == Division("Chapter", "1", <<"G", ".">>)
DivTwoPeriods == Division("Chapter", "1", <<"G", ".", ".">>)
DivNullName == [Division("Chapter", "1", <<>>) EXCEPT !.name_null = TRUE]
DivNoNumber == [Division("Part", "", <<"G", ".">>) EXCEPT !.has_number = FALSE]

DefaultPath == <<DivPeriod>>

Paths ==
    { <<>>, <<Title45>>, <<DivPlain>>, <<DivPeriod>>, <<DivTwoPeriods>>,
      <<DivNullName>>, <<DivNoNumber>>,
      <<Title45, DivPeriod>>, <<DivPeriod, DivPlain>>,
      <<DivPlain, DivTwoPeriods>> }

Effect(effect, explanation) ==
    [kind |-> "obj", has_effect |-> TRUE, effect |-> effect,
     explanation |-> explanation]

EffA == Effect(<<"a">>, <<>>)
EffB == Effect(<<"b">>, <<"t", "]">>)
EffZ == Effect(<<"z">>, <<"t">>)
EffFence == Effect(<<"a">>, <<"t", "F">>)

Arrays ==
    { <<>>, <<EffA>>, <<EffZ>>, <<EffB, EffZ>>, <<EffZ, EffB, EffA>>,
      <<EffA, EffA>>, <<EffFence>>, <<EffZ, EffFence>> }

WrappedArrays == { <<>>, <<EffB, EffZ>>, <<EffFence>> }

RenderEntry(e) == <<"{">> \o e.effect \o <<":">> \o e.explanation \o <<"}">>

RECURSIVE RenderItems(_)
RenderItems(A) ==
    IF A = <<>> THEN <<>>
    ELSE IF Len(A) = 1 THEN RenderEntry(A[1])
    ELSE RenderEntry(A[1]) \o <<",", " ">> \o RenderItems(Tail(A))

\* the JSON text of the array A
RenderArray(A) == <<"[">> \o RenderItems(A) \o <<"]">>

Wrappers == {"none", "json", "plain"}
Commentaries == { <<>>, <<" ", "t">> }

\* the text of A inside the fences of style w, followed by commentary c
Wrap(A, w, c) ==
    (IF w = "json" THEN <<"F", "j", " ">>
     ELSE IF w = "plain" THEN <<"F", " ">> ELSE <<>>)
        \o RenderArray(A)
        \o (IF w = "none" THEN <<>> ELSE <<" ", "F">>)
        \o c

WellFormedRaws ==
    { Wrap(A, "none", <<>>) : A \in Arrays }
        \cup { Wrap(A, w, c) : A \in WrappedArrays, w \in Wrappers,
                               c \in Commentaries }

MalformedRaws ==
    { <<>>,
      <<"t">>,
      <<"[", "{", "a", ":", "}">>,
      <<"{", "a", ":", "}">>,
      <<"t", " ", "[", "]">>,
      <<"[", "]", " ", "t", "]">>,
      <<"[", "{", "a", ":", "}", ",", "]">>,
      <<"[", "{", "a", ":", "]">>,
      <<"[", "n", "]">>,
      <<"[", "{", "t", "}", "]">>,
      <<"F", "j", "[", "{", "a", ":", "}", "]">> }

\* what one code unit of the input can be: its path, and its entry of the
\* effect dictionary (present or not)
InputUnits ==
    { [path |-> DefaultPath, has_entry |-> TRUE, raw |-> r] :
          r \in WellFormedRaws \cup MalformedRaws }
        \cup { [path |-> p, has_entry |-> TRUE, raw |-> r] :
                   p \in Paths, r \in { <<"[", "{", "a", ":", "}", "]">>, <<"t">> } }
        \cup { [path |-> DefaultPath, has_entry |-> FALSE, raw |-> <<>>] }

Mcu(id, u) ==
    [unique_id |-> id, jurisdiction |-> "Alabama", year |-> 2023,
     full_name |-> <<"S">>, full_text |-> <<"x">>, path |-> u.path]

\* ----------------------------------------------------------------- actions

Init ==
    /\ mode \in {"main", "merge_tags"}
    /\ pc = "loop"
    /\ mcu_list = <<>>
    /\ tag_output_dict = <<>>
    /\ n_error = 0
    /\ new_mcu_list = <<>>
    /\ processed_data = <<>>
    /\ AppIdle
    /\ CheckIdle

\* prepare_data_for_app.main, lines 107-146: one iteration of the loop
MainIter ==
    /\ mode = "main"
    /\ pc = "loop"
    /\ Len(mcu_list) < MaxUnits
    /\ \E u \in InputUnits :
         LET mcu == Mcu(Len(mcu_list) + 1, u)
             r == TryBody(mcu, u.raw)
         IN  /\ mcu_list' = Append(mcu_list, mcu)
             /\ tag_output_dict' =
                    Append(tag_output_dict,
                           [has_entry |-> u.has_entry, raw |-> u.raw])
             /\ IF ~u.has_entry
                THEN \* line 108 raises KeyError outside the try
                     /\ pc' = "aborted"
                     /\ UNCHANGED <<n_error, new_mcu_list>>
                ELSE IF r.ok
                THEN /\ new_mcu_list' = AppendRecord(new_mcu_list, r.new_mcu)
                     /\ UNCHANGED <<pc, n_error>>
                ELSE /\ n_error' = n_error + 1
                     /\ UNCHANGED <<pc, new_mcu_list>>
    /\ UNCHANGED <<mode, processed_data, appVars, checkVars>>

\* lines 148-152: the input is exhausted; report and write
MainFinish ==
    /\ mode = "main"
    /\ pc = "loop"
    /\ pc' = "done"
    /\ UNCHANGED <<mode, mcu_list, tag_output_dict, n_error, new_mcu_list,
                   processed_data, appVars, checkVars>>

\* merge_tags, lines 47-69: one iteration of the loop
MergeTagsIter ==
    /\ mode = "merge_tags"
    /\ pc = "loop"
    /\ Len(processed_data) < MaxUnits
    /\ \E p \in Paths :
         LET item == Mcu(Len(mcu_list) + 1, [path |-> p])
         IN  /\ mcu_list' = Append(mcu_list, item)
             /\ processed_data' = Append(processed_data, MergeRecord(item))
    /\ UNCHANGED <<mode, pc, tag_output_dict, n_error, new_mcu_list, appVars,
                   checkVars>>

\* merge_tags, line 71
MergeTagsFinish ==
    /\ mode = "merge_tags"
    /\ pc = "loop"
    /\ pc' = "done"
    /\ UNCHANGED <<mode, mcu_list, tag_output_dict, n_error, new_mcu_list,
                   processed_data, appVars, checkVars>>

Next == MainIter \/ MainFinish \/ MergeTagsIter \/ MergeTagsFinish

Spec == Init /\ [][Next]_vars

\* ------------------------------------------------- claims: the pipeline

UnitIds(list) == [k \in 1..Len(list) |-> list[k].unique_id]

RecordsOf(id) == {k \in 1..Len(new_mcu_list) : new_mcu_list[k].unique_id = id}

\* the unit's effect string is beyond repair: no "]" in it, or no valid JSON
\* after the repair steps
Undecodable(raw) == RFind(raw, "]") = -1 \/ ~json_loads(Repair(raw)).ok

C1_NoRecord ==
    mode = "main" =>
        \A i \in 1..Len(mcu_list) :
            (tag_output_dict[i].has_entry /\ Undecodable(tag_output_dict[i].raw))
                => RecordsOf(mcu_list[i].unique_id) = {}

C1_Step ==
    (mode = "main" /\ Len(mcu_list') = Len(mcu_list) + 1) =>
        LET d == tag_output_dict'[Len(mcu_list')]
        IN  (d.has_entry /\ Undecodable(d.raw)) =>
                /\ n_error' = n_error + 1
                /\ new_mcu_list' = new_mcu_list
                /\ pc' = "loop"

\* C1: a unit of main()'s loop whose effect string holds no "]", or is not
\* valid JSON after the repair steps, never gets a record; the iteration
\* that handles it adds exactly one to n_error, appends nothing, and leaves
\* the loop running.
C1_DecodeFailureDropsUnit == [](C1_NoRecord) /\ [][C1_Step]_vars

\* a later unit was kept after a unit with no "]" was dropped and counted
C1_Witness ==
    /\ mode = "main"
    /\ Len(mcu_list) = 2
    /\ RFind(tag_output_dict[1].raw, "]") = -1
    /\ tag_output_dict[1].has_entry
    /\ n_error = 1
    /\ Len(new_mcu_list) = 1

\* C2: for every well-formed array A, wrapped or not in fences and followed
\* or not by commentary, the record of a unit whose effect string is that
\* text has as legal_effects exactly the entries of A whose effect is in
\* LIST_OF_EFFECTS, in order.
C2_RoundTrip ==
    mode = "main" =>
        \A i \in 1..Len(mcu_list) :
            \A A \in Arrays, w \in Wrappers, c \in Commentaries :
                (tag_output_dict[i].has_entry
                    /\ tag_output_dict[i].raw = Wrap(A, w, c))
                => \A k \in RecordsOf(mcu_list[i].unique_id) :
                       new_mcu_list[k].legal_effects = FilterEffects(A)

HasTitle45(path) == \E k \in 1..Len(path) : path[k] = Title45

\* C3: a unit whose path holds the division {Title, 45, Local Laws.} has no
\* record in new_mcu_list.
C3_Title45Excluded ==
    mode = "main" =>
        \A i \in 1..Len(mcu_list) :
            HasTitle45(mcu_list[i].path)
                => RecordsOf(mcu_list[i].unique_id) = {}

\* the pieces of s between the separators " > "
RECURSIVE SplitSep(_, _)
SplitSep(s, piece) ==
    IF s = <<>> THEN <<piece>>
    ELSE IF Len(s) >= 3 /\ SubSeq(s, 1, 3) = SEP
         THEN <<piece>> \o SplitSep(SubSeq(s, 4, Len(s)), <<>>)
         ELSE SplitSep(Tail(s), Append(piece, s[1]))

\* in text, the segment of every division of path whose name ends in a
\* period does not end in a period
NoPeriodSegments(path, text) ==
    LET pieces == SplitSep(text, <<>>)
    IN  \A k \in 1..Len(path) :
            (~path[k].name_null /\ EndsWith(path[k].name, <<".">>))
                => /\ k <= Len(pieces)
                   /\ ~EndsWith(pieces[k], <<".">>)

\* C6: the segment built for a division whose name ends in a period (one or
\* more) does not end in a period, in every path and full_name that main()
\* and merge_tags() build.
C6_NoTrailingPeriod ==
    /\ mode = "main" =>
           \A k \in 1..Len(new_mcu_list) :
               LET r == new_mcu_list[k]
                   mcu == mcu_list[r.unique_id]
               IN  /\ NoPeriodSegments(mcu.path, r.path)
                   /\ NoPeriodSegments(mcu.path, r.full_name)
    /\ mode = "merge_tags" =>
           \A k \in 1..Len(processed_data) :
               NoPeriodSegments(mcu_list[k].path, processed_data[k].path)

\* C7: the path of every record of main() does not end with the separator,
\* and full_name is the path, one separator, and the unit's own name.
C7_SeparatorStripped ==
    mode = "main" =>
        \A k \in 1..Len(new_mcu_list) :
            LET r == new_mcu_list[k]
                mcu == mcu_list[r.unique_id]
            IN  /\ ~EndsWith(r.path, SEP)
                /\ mcu.path # <<>> => r.full_name = r.path \o SEP \o mcu.full_name

\* a is b with some elements left out
RECURSIVE IsSubseq(_, _)
IsSubseq(a, b) ==
    IF a = <<>> THEN TRUE
    ELSE IF b = <<>> THEN FALSE
    ELSE IF Head(a) = Head(b) THEN IsSubseq(Tail(a), Tail(b))
    ELSE IsSubseq(a, Tail(b))

\* C9: at every point of main()'s loop the ids of the records are a
\* subsequence of the ids of the units iterated so far.
C9_OrderPreserved ==
    mode = "main" => IsSubseq(UnitIds(new_mcu_list), UnitIds(mcu_list))

\* two units were kept
C9_Witness == mode = "main" /\ Len(new_mcu_list) = 2

\* C10: when main() ends, n_error is the number of units whose string does
\* not decode, and every other unit has exactly one record.
C10_ErrorTally ==
    (mode = "main" /\ pc = "done") =>
        LET failed == {i \in 1..Len(mcu_list) :
                          Undecodable(tag_output_dict[i].raw)}
        IN  /\ n_error = Cardinality(failed)
            /\ \A i \in 1..Len(mcu_list) :
                   i \notin failed
                       => Cardinality(RecordsOf(mcu_list[i].unique_id)) = 1

\* ------------------------------------ app.py and version_1/app.py: inputs

Ids == {"u1", "u2", "u3"}
Tags == {"t1", "t2"}

Entry(effect, explanation) == [effect |-> effect, explanation |-> explanation]

\* tag_list of a row of the boolean artifact: the configured tag names, each
\* at most once
TagLists == { <<>>, <<"t1">>, <<"t2">>, <<"t1", "t2">>, <<"t2", "t1">> }

\* legal_effects of a row of the artifact main() writes: the filtered list,
\* in which an effect can repeat
EffectLists ==
    { <<>>,
      <<Entry("t1", "x")>>,
      <<Entry("t2", "x")>>,
      <<Entry("t1", "x"), Entry("t2", "y")>>,
      <<Entry("t2", "y"), Entry("t1", "x")>>,
      <<Entry("t1", "x"), Entry("t1", "y")>> }

\* the non-empty lines of a record's text: "#" is a line that starts with the
\* section marker, "x" any other line
Texts == { <<"#", "x">>, <<"x", "#">> }

AppRows ==
    { [unique_id |-> id, tag_list |-> tl, legal_effects |-> <<>>,
       text |-> <<"#", "x">>] : id \in Ids, tl \in TagLists }

V1Rows ==
    { [unique_id |-> id, tag_list |-> <<>>, legal_effects |-> el, text |-> tx] :
          id \in Ids, el \in EffectLists, tx \in Texts }

\* the id parameter of a request: absent, the text None, or an id
NoParam == "<absent>"
Queries == Ids \cup {"u9", "None", NoParam}

\* ------------------------------------------------------------- load_data

\* a variant of SetDefaultAppend that overwrites the list
SetDefaultAssign(map, key, val) ==
    IF key \in DOMAIN map THEN [map EXCEPT ![key] = <<val>>]
    ELSE map @@ (key :> <<val>>)

\* app.py line 19, version_1/app.py lines 18-20:
\* map.setdefault(key, []).append(val)
SetDefaultAppend(map, key, val) ==
    IF key \in DOMAIN map THEN [map EXCEPT ![key] = Append(@, val)]
    ELSE map @@ (key :> <<val>>)

\* dict[key] = val
Assign(map, key, val) ==
    IF key \in DOMAIN map THEN [map EXCEPT ![key] = val]
    ELSE map @@ (key :> val)

\* app.py lines 18-19: the inner loop over record['tag_list']
RECURSIVE AppInner(_, _, _)
AppInner(map, tag_list, unique_id) ==
    IF tag_list = <<>> THEN map
    ELSE AppInner(SetDefaultAppend(map, Head(tag_list), unique_id),
                  Tail(tag_list), unique_id)

\* version_1/app.py lines 17-20: the inner loop over record['legal_effects']
RECURSIVE V1Inner(_, _, _)
V1Inner(map, legal_effects, unique_id) ==
    IF legal_effects = <<>> THEN map
    ELSE V1Inner(SetDefaultAppend(map, Head(legal_effects).effect,
                                  <<unique_id, Head(legal_effects).explanation>>),
                 Tail(legal_effects), unique_id)

InitApp ==
    /\ loader \in {"app", "v1"}
    /\ apc = "loading"
    /\ data = <<>>
    /\ tag_to_id = EmptyMap
    /\ effect_to_id = EmptyMap
    /\ id_to_idx = EmptyMap
    /\ query_id = NoParam
    /\ page = "none"
    /\ PipeIdle
    /\ CheckIdle

UsedIds == {data[k].unique_id : k \in 1..Len(data)}

\* app.py load_data, lines 17-20: one row
AppLoadIter ==
    /\ loader = "app"
    /\ apc = "loading"
    /\ Len(data) < MaxRows
    /\ \E record \in AppRows :
         /\ record.unique_id \notin UsedIds
         /\ data' = Append(data, record)
         /\ tag_to_id' = AppInner(tag_to_id, record.tag_list, record.unique_id)
         /\ id_to_idx' = Assign(id_to_idx, record.unique_id, Len(data))
    /\ UNCHANGED <<loader, apc, effect_to_id, query_id, page, pipeVars,
                   checkVars>>

\* version_1/app.py load_data, lines 15-21: one row; id_to_idx is set inside
\* the inner loop, so only for a row with at least one effect
V1LoadIter ==
    /\ loader = "v1"
    /\ apc = "loading"
    /\ Len(data) < MaxRows
    /\ \E record \in V1Rows :
         /\ record.unique_id \notin UsedIds
         /\ data' = Append(data, record)
         /\ effect_to_id' =
                V1Inner(effect_to_id, record.legal_effects, record.unique_id)
         /\ id_to_idx' =
                IF record.legal_effects = <<>> THEN id_to_idx
                ELSE Assign(id_to_idx, record.unique_id, Len(data))
    /\ UNCHANGED <<loader, apc, tag_to_id, query_id, page, pipeVars, checkVars>>

\* load_data returns: app.py line 25, version_1/app.py lines 25-27
LoadDone ==
    /\ apc = "loading"
    /\ apc' = "loaded"
    /\ UNCHANGED <<loader, data, tag_to_id, effect_to_id, id_to_idx, query_id,
                   page, pipeVars, checkVars>>

\* ------------------------------------------------------------ the pages

\* app.py render_record_page, lines 61-102: the lookup raises KeyError for an
\* unknown id, and the handler names ValueError and IndexError only
AppRecordPage(id) == IF id \in DOMAIN id_to_idx THEN "shown" ELSE "exception"

\* app.py render_listing_page, lines 32-35: tag_to_id[selected_tag]
AppListingPage(selected_tag) ==
    IF selected_tag \in DOMAIN tag_to_id THEN "listing" ELSE "exception"

\* version_1/app.py lines 80-84: lines[i+1] raises IndexError when the last
\* line starts with the marker
RECURSIVE V1LinesRaise(_, _)
V1LinesRaise(lines, i) ==
    IF i > Len(lines) THEN FALSE
    ELSE IF lines[i] = "#"
         THEN IF i = Len(lines) THEN TRUE
              ELSE V1LinesRaise([lines EXCEPT ![i + 1] = ""], i + 1)
         ELSE V1LinesRaise(lines, i + 1)

\* version_1/app.py main, lines 61-100
V1RecordPage(id) ==
    IF id \notin DOMAIN id_to_idx THEN "exception"
    ELSE IF V1LinesRaise(data[id_to_idx[id] + 1].text, 1) THEN "not_found"
    ELSE "shown"

\* app.py main, lines 105-112
AppMain ==
    /\ loader = "app"
    /\ apc = "loaded"
    /\ \E q \in Queries, selected_tag \in Tags :
         /\ query_id' = q
         /\ page' = IF q = NoParam \/ q = "None"
                    THEN AppListingPage(selected_tag)
                    ELSE AppRecordPage(q)
    /\ UNCHANGED <<loader, apc, data, tag_to_id, effect_to_id, id_to_idx,
                   pipeVars, checkVars>>

\* version_1/app.py main, lines 29-100
V1Main ==
    /\ loader = "v1"
    /\ apc = "loaded"
    /\ \E q \in Queries :
         /\ query_id' = q
         /\ page' = IF q = NoParam THEN "listing" ELSE V1RecordPage(q)
    /\ UNCHANGED <<loader, apc, data, tag_to_id, effect_to_id, id_to_idx,
                   pipeVars, checkVars>>

NextApp == AppLoadIter \/ V1LoadIter \/ LoadDone \/ AppMain \/ V1Main

SpecApp == InitApp /\ [][NextApp]_vars

\* --------------------------------------------------- claims: the indices

\* the tags (effects) of a row, in the order of its list
RowTags(record) ==
    IF loader = "app" THEN record.tag_list
    ELSE [k \in 1..Len(record.legal_effects) |-> record.legal_effects[k].effect]

Occurrences(seq, x) == Cardinality({k \in 1..Len(seq) : seq[k] = x})

\* the ids stored under tag
StoredIds(tag) ==
    IF loader = "app" THEN tag_to_id[tag]
    ELSE [k \in 1..Len(effect_to_id[tag]) |-> effect_to_id[tag][k][1]]

StoredTags == IF loader = "app" THEN DOMAIN tag_to_id ELSE DOMAIN effect_to_id

\* the ids of the rows that hold tag, in row order, each row once
RECURSIVE IdsOnce(_, _)
IdsOnce(rows, tag) ==
    IF rows = <<>> THEN <<>>
    ELSE (IF Occurrences(RowTags(Head(rows)), tag) > 0
          THEN <<Head(rows).unique_id>> ELSE <<>>)
             \o IdsOnce(Tail(rows), tag)

\* the ids of the rows that hold tag, in row order, each row as many times as
\* its list holds the tag
RECURSIVE IdsPerOccurrence(_, _)
IdsPerOccurrence(rows, tag) ==
    IF rows = <<>> THEN <<>>
    ELSE [k \in 1..Occurrences(RowTags(Head(rows)), tag) |-> Head(rows).unique_id]
             \o IdsPerOccurrence(Tail(rows), tag)

TagsPresent == {t \in Tags : \E k \in 1..Len(data) : Occurrences(RowTags(data[k]), t) > 0}

\* every id stored under tag is a key of id_to_idx and maps to a row with
\* that id
IdsResolve(tag) ==
    \A k \in 1..Len(StoredIds(tag)) :
        LET id == StoredIds(tag)[k]
        IN  /\ id \in DOMAIN id_to_idx
            /\ id_to_idx[id] + 1 \in 1..Len(data)
            /\ data[id_to_idx[id] + 1].unique_id = id

\* C4 as stated: after the pass, the list under every tag present holds the
\* id of every row with the tag, in row order, each row once, and every id
\* resolves through id_to_idx.
C4_IndexBuildOnce ==
    apc = "loaded" =>
        \A t \in TagsPresent :
            /\ t \in StoredTags
            /\ StoredIds(t) = IdsOnce(data, t)
            /\ IdsResolve(t)

\* C4 as amended: after the pass, the list under every tag present holds the
\* id of every row with the tag, in row order, each row once for every
\* occurrence of the tag in its list, and every id resolves through
\* id_to_idx.
C4_IndexBuild ==
    apc = "loaded" =>
        /\ StoredTags = TagsPresent
        /\ \A t \in TagsPresent :
               /\ StoredIds(t) = IdsPerOccurrence(data, t)
               /\ IdsResolve(t)

\* a table of two rows is loaded, one row holding a tag twice and the other
\* holding it once
C4_Witness ==
    /\ apc = "loaded"
    /\ Len(data) = 2
    /\ \E t \in TagsPresent :
           /\ Len(StoredIds(t)) = 3
           /\ Occurrences(RowTags(data[1]), t) > 0
           /\ Occurrences(RowTags(data[2]), t) > 0

\* C5: a record request for an id that is no key of id_to_idx ends in the
\* "Record not found" state.
C5_NotFoundState ==
    (page # "none" /\ query_id \notin {NoParam, "None"}
        /\ query_id \notin DOMAIN id_to_idx)
    => page = "not_found"

\* ------------------------------------------------- check_data.py: inputs

\* a JSON value under 'tags': a mapping from levels to values, or not one.
\* levels is the list of <<level, value>> pairs in the mapping's order; a
\* value is a list of items ("s" a string, "n" a number), a mapping, or a
\* string.
TagsDict(levels) == [t |-> "dict", levels |-> levels]
TagsOther == [t |-> "other", levels |-> <<>>]
LevelList(items) == [t |-> "list", items |-> items]
LevelDict == [t |-> "dict", items |-> <<>>]
LevelStr == [t |-> "str", items |-> <<>>]

\* a JSON value under 'content': a string (its characters; "C" stands for
\* the text Citation: and "\n" for a line break), or not one
ContentStr(chars) == [t |-> "str", chars |-> chars]
ContentOther == [t |-> "other", chars |-> <<>>]

GoodContent == ContentStr(<<"#", " ", "x", "\n", "#", "#", " ", "x", "\n", "C">>)
GoodTags == TagsDict(<< <<"highly_specific", LevelList(<<"s">>)>>,
                        <<"general", LevelList(<<>>)>> >>)

\* an entry of the list that is a JSON object: the fields it has, in order,
\* and the values of 'tags' and 'content'
Statute(fields, tags, content) ==
    [kind |-> "dict", fields |-> fields, tags |-> tags, content |-> content]

\* an entry of the list that is not an object (a number, a string, a list,
\* null)
NonObject(kind) ==
    [kind |-> kind, fields |-> <<>>, tags |-> TagsOther, content |-> ContentOther]

AllFields == <<"title", "url", "content", "tags">>

StatuteEntries ==
    { Statute(AllFields, GoodTags, GoodContent),
      Statute(<<"title", "url", "content">>, TagsOther, GoodContent),
      Statute(<<"title", "url", "tags">>, GoodTags, ContentOther),
      Statute(<<"title", "content", "tags">>, GoodTags, GoodContent),
      Statute(<<"title", "url", "content", "tags", "notes">>, GoodTags, GoodContent),
      Statute(AllFields, TagsOther, GoodContent),
      Statute(AllFields, TagsDict(<< <<"vague", LevelList(<<"s">>)>> >>), GoodContent),
      Statute(AllFields, TagsDict(<< <<"general", LevelStr>> >>), GoodContent),
      Statute(AllFields, TagsDict(<< <<"general", LevelDict>> >>), GoodContent),
      Statute(AllFields, TagsDict(<< <<"specific", LevelList(<<"s", "n", "n">>)>> >>),
              GoodContent),
      Statute(AllFields, GoodTags, ContentOther),
      Statute(AllFields, GoodTags, ContentStr(<<"x">>)),
      Statute(AllFields, GoodTags, ContentStr(<<"#", "#", " ", "x", "C">>)),
      Statute(AllFields, GoodTags, ContentStr(<<"#", " ", "\n", "x", "C">>)),
      NonObject("int"), NonObject("str"), NonObject("list"), NonObject("null") }

\* what opening and parsing the file gives, as main() tells the outcomes
\* apart: FileNotFoundError, json.JSONDecodeError, a value that is no list,
\* a list
Files == {"not_found", "invalid_json", "not_list", "list"}

\* --------------------------------- check_data.validate_statute_structure

Has(statute, field) == \E k \in 1..Len(statute.fields) : statute.fields[k] = field

RECURSIVE Flatten(_)
Flatten(ss) == IF ss = <<>> THEN <<>> ELSE Head(ss) \o Flatten(Tail(ss))

\* re.search(pat + ".+", content): pat followed by a character that is no
\* line break
Search(pat, chars) ==
    \E i \in 1..Len(chars) :
        /\ i + Len(pat) <= Len(chars)
        /\ SubSeq(chars, i, i + Len(pat) - 1) = pat
        /\ chars[i + Len(pat)] # "\n"

EXPECTED_LEVELS == {"highly_specific", "specific", "moderately_specific", "general"}
EXPECTED_FIELDS == {"title", "url", "content", "tags"}

\* lines 18-21
RequiredErrors(statute) ==
    (IF Has(statute, "title") THEN <<>> ELSE <<"Missing required field: title">>)
        \o (IF Has(statute, "content") THEN <<>>
            ELSE <<"Missing required field: content">>)

\* lines 36-42, one level
LevelErrors(value) ==
    IF value.t # "list" THEN <<"Tag level is not a list">>
    ELSE [k \in 1..Len(SelectSeq(value.items, LAMBDA x : x # "s"))
             |-> "Non-string tag found"]

\* lines 24-42
TagsErrors(statute) ==
    IF ~Has(statute, "tags") THEN <<>>
    ELSE IF statute.tags.t # "dict" THEN <<"'tags' field is not a dictionary">>
    ELSE LET levels == statute.tags.levels
         IN  Flatten([k \in 1..Len(levels) |->
                        IF levels[k][1] \in EXPECTED_LEVELS THEN <<>>
                        ELSE <<"Unexpected tag level">>])
                 \o Flatten([k \in 1..Len(levels) |-> LevelErrors(levels[k][2])])

\* lines 45-46
UrlErrors(statute) ==
    IF Has(statute, "url") THEN <<>> ELSE <<"Missing 'url' field">>

\* lines 49-64
ContentErrors(statute) ==
    IF ~Has(statute, "content") THEN <<>>
    ELSE IF statute.content.t # "str" THEN <<"'content' field is not a string">>
    ELSE (IF Search(<<"#", " ">>, statute.content.chars) THEN <<>>
          ELSE <<"'content' does not have a main title">>)
             \o (IF Search(<<"#", "#", " ">>, statute.content.chars) THEN <<>>
                 ELSE <<"'content' does not have any sections">>)
             \o (IF \E i \in 1..Len(statute.content.chars) :
                        statute.content.chars[i] = "C"
                 THEN <<>>
                 ELSE <<"'content' appears to be missing citations">>)

\* lines 67-70
NestedErrors(statute) ==
    IF Has(statute, "tags") /\ statute.tags.t = "dict"
    THEN LET levels == statute.tags.levels
         IN  Flatten([k \in 1..Len(levels) |->
                        IF levels[k][2].t = "dict"
                        THEN <<"Nested dictionary found in tags">> ELSE <<>>])
    ELSE <<>>

\* lines 73-76
FieldErrors(statute) ==
    Flatten([k \in 1..Len(statute.fields) |->
               IF statute.fields[k] \in EXPECTED_FIELDS THEN <<>>
               ELSE <<"Unexpected field">>])

\* lines 13-78, for an entry that is an object: the list of issues
validate_statute_structure(statute) ==
    RequiredErrors(statute) \o TagsErrors(statute) \o UrlErrors(statute)
        \o ContentErrors(statute) \o NestedErrors(statute)
        \o FieldErrors(statute)

\* lines 20, 74: an entry that is no object makes the function raise
\* (TypeError on 'title' not in statute for a number or null, AttributeError
\* on statute.keys() for a string or a list)
ValidateRaises(statute) == statute.kind # "dict"

\* -------------------------------------------------------- check_data.main

InitCheck ==
    /\ vpc = "start"
    /\ file \in Files
    /\ statutes = <<>>
    /\ total_errors = 0
    /\ result = "none"
    /\ PipeIdle
    /\ AppIdle

\* lines 89-102: open, parse, and test that the data is a list
CheckOpen ==
    /\ vpc = "start"
    /\ IF file = "list"
       THEN vpc' = "scan" /\ result' = result
       ELSE vpc' = "done" /\ result' = "return1"
    /\ UNCHANGED <<file, statutes, total_errors, pipeVars, appVars>>

\* lines 108-115: one entry of the list
CheckIter ==
    /\ vpc = "scan"
    /\ Len(statutes) < MaxStatutes
    /\ \E statute \in StatuteEntries :
         /\ statutes' = Append(statutes, statute)
         /\ IF ValidateRaises(statute)
            THEN /\ vpc' = "done"
                 /\ result' = "raised"
                 /\ UNCHANGED total_errors
            ELSE /\ total_errors' =
                        total_errors + Len(validate_statute_structure(statute))
                 /\ UNCHANGED <<vpc, result>>
    /\ UNCHANGED <<file, pipeVars, appVars>>

\* lines 117-122: the list is exhausted
CheckFinish ==
    /\ vpc = "scan"
    /\ vpc' = "done"
    /\ result' = IF total_errors = 0 THEN "return0" ELSE "return1"
    /\ UNCHANGED <<file, statutes, total_errors, pipeVars, appVars>>

NextCheck == CheckOpen \/ CheckIter \/ CheckFinish

SpecCheck == InitCheck /\ [][NextCheck]_vars

\* ------------------------------------------------ claims: the validator

\* the entry is an object on which validate_statute_structure returns no
\* issue
Clean(statute) ==
    statute.kind = "dict" /\ validate_statute_structure(statute) = <<>>

\* C8: main returns 0 if and only if the file parsed as a list and every
\* entry has zero issues, and returns 1 in every other case.
C8_ExitStatus ==
    vpc = "done" =>
        /\ result \in {"return0", "return1"}
        /\ result = "return0" <=>
               (file = "list" /\ \A k \in 1..Len(statutes) : Clean(statutes[k]))

====
